---- MODULE Spec2Model ----
(***************************************************************************)
(* A model of afsapi.AFSAPI (src/afsapi/__init__.py): the asynchronous     *)
(* client of a Frontier Silicon device.  The client's fields are the       *)
(* state, every coroutine is cut at its awaits, and the device is the      *)
(* environment that answers each HTTP request.                             *)
(***************************************************************************)
EXTENDS Integers, Sequences, FiniteSets, TLC

VARIABLES
    intrusive,       \* self.intrusive
    sid,             \* self.sid
    webfsapi,        \* self.__webfsapi
    modes,           \* self.__modes
    volume_steps,    \* self.__volume_steps
    equalisers,      \* self.__equalisers
    session_closed,  \* self.__session has been closed
    devMode,         \* the device: the band it stores for netRemote.sys.mode
    devModes,        \* the device: the items of netRemote.sys.caps.validModes
    devSid,          \* the device: how many session ids it has handed out
    task,            \* per coroutine: the API method running and its position
    faults,          \* the device: how many requests have gone wrong so far
    lastCall,        \* history: summary of the dispatch before the current one
    lastOp,          \* history: summary of the API method before the current one
    nOps             \* history: number of API methods started

vars == <<intrusive, sid, webfsapi, modes, volume_steps, equalisers,
          session_closed, devMode, devModes, devSid, faults, task, lastCall,
          lastOp, nOps>>

-----------------------------------------------------------------------------
(* Bounds of the model *)

\* API methods started in one behaviour of a caller of the dispatcher, the typed
\* accessors and close
MaxOps == 3
\* API methods started in one behaviour of a caller of the capability and mode
\* methods
MaxCapOps == 2
\* session ids the device hands out in one behaviour
MaxSid == 3
\* largest u8 value the device reports for a scalar node
MaxVal == 1
\* requests that go wrong in one behaviour: no answer, an answer that is not
\* success, a body or a field that cannot be decoded
MaxFaults == 2

\* API methods started in one behaviour of a caller of get_power, get_volume,
\* set_volume, handle_set and get_mode_list
MaxApiOps == 2
\* API methods started in one behaviour of a caller of handle_list and
\* get_mode_list
MaxListOps == 1
\* API methods started in one behaviour of concurrent callers of handle_set
MaxConcOps == 2
\* items in the list the device answers LIST_GET_NEXT with
MaxItems == 3

\* result.status == 200
HTTP_OK == 200

\* Statuses the device answers with
Statuses == {HTTP_OK, 404}

Tasks == {"t1", "t2"}
\* The coroutines of a caller that awaits each API method before the next
SeqTasks == {"t1"}

-----------------------------------------------------------------------------
(* Python values *)

PyNone == <<"None">>
PyInt(n) == <<"int", n>>
PyStr(s) == <<"str", s>>
PyBool(b) == <<"bool", b>>
PyList(l) == <<"list", l>>
PyDoc(d) == <<"doc", d>>
PyRaise(e) == <<"raise", e>>

\* Python truthiness: `not x`
Falsy(x) ==
    CASE x[1] = "None" -> TRUE
      [] x[1] = "int" -> x[2] = 0
      [] x[1] = "str" -> x[2] = ""
      [] x[1] = "bool" -> ~x[2]
      [] x[1] = "list" -> x[2] = <<>>
      [] OTHER -> FALSE

\* Python `x or None`
OrNone(x) == IF Falsy(x) THEN PyNone ELSE x

-----------------------------------------------------------------------------
(* The device's answers *)

\* The body of a response as lxml.objectify sees it: wf is well-formedness, st the
\* text of <status> ("" when the element is missing), val the typed child of
\* <value> (<<>> when <value> is missing), items the <item> elements, each a
\* sequence of fields
Doc(st, val, items) == [wf |-> TRUE, st |-> st, val |-> val, items |-> items]
Garbage == [wf |-> FALSE, st |-> "", val |-> <<>>, items |-> <<>>]

Field(name, v) == [name |-> name, val |-> v]

\* The labels of the device's modes, in band order
ModeLabels == <<"DAB", "FM">>
EqLabels == <<"Normal">>

Bands == 0 .. (Len(ModeLabels) - 1)

DevItems(labels) ==
    [i \in 1 .. Len(labels) |-> <<Field("key", "K"), Field("label", labels[i])>>]

\* The items a device may hold in a list: the fields in either order, the label
\* field missing, the label empty
ListItems ==
    {<<Field("key", "K"), Field("label", "DAB")>>,
     <<Field("label", "FM"), Field("key", "K")>>,
     <<Field("key", "K")>>,
     <<Field("label", ""), Field("key", "K")>>}

\* The lists of at most MaxItems such items
ListDocs == UNION {[1 .. n -> ListItems] : n \in 0 .. MaxItems}

\* The lists the device answers a LIST_GET_NEXT request with: the items of the
\* node, or none
DevLists(item) ==
    IF item = "valid_modes" THEN {<<>>, devModes}
    ELSE {<<>>, DevItems(EqLabels)}

\* The type of the node as the device's schema has it
ItemType(item) ==
    CASE item \in {"power", "volume_steps", "volume"} -> "u8"
      [] item \in {"mode", "sleep"} -> "u32"
      [] OTHER -> "c8_array"

DevValues(item) ==
    CASE item = "mode" -> {devMode}
      [] ItemType(item) = "c8_array" -> {"", "Radio"}
      [] OTHER -> 0 .. MaxVal

\* The bodies the device may send for path = <<verb, node>>
DeviceBodies(path) ==
    {Garbage} \cup
    CASE path[1] = "GET" ->
           {Doc("FS_OK", <<ItemType(path[2]), v>>, <<>>) : v \in DevValues(path[2])}
           \cup {Doc("FS_NODE_BLOCKED", <<>>, <<>>)}
      [] path[1] = "SET" -> {Doc("FS_OK", <<>>, <<>>), Doc("FS_FAIL", <<>>, <<>>)}
      [] path[1] = "LIST_GET_NEXT" ->
           {Doc("FS_OK", <<>>, l) : l \in DevLists(path[2])}
           \cup {Doc("FS_FAIL", <<>>, <<>>)}
      [] OTHER -> {Doc("FS_OK", <<>>, <<>>)}

\* An answer that is not success, or whose body is not XML
IsFault(status, body) == status # HTTP_OK \/ ~body.wf

\* The band the device stores after answering `body` with `status` to a request
DeviceWrite(path, extra, status, body) ==
    IF /\ path = <<"SET", "mode">>
       /\ status = HTTP_OK
       /\ body.wf /\ body.st = "FS_OK"
       /\ extra[1] = "dict" /\ "value" \in DOMAIN extra[2]
       /\ extra[2].value[1] = "int" /\ extra[2].value[2] \in Bands
    THEN extra[2].value[2]
    ELSE devMode

-----------------------------------------------------------------------------
(* AFSAPI.call *)

PIN == PyStr("1234")

\* A coroutine that runs nothing
IdleTask ==
    [op |-> "idle", arg |-> <<>>, stage |-> 0, loc |-> PyNone, ret |-> PyNone,
     raised |-> "", exc |-> "", pc |-> "idle", ncalls |-> 0,
     path |-> <<"", "">>, extra |-> PyNone, wants |-> FALSE,
     sid0 |-> PyNone, ep0 |-> PyNone, reqs |-> <<>>, doc |-> PyNone]

\* The exception classes the awaits of call can raise, all derived from Exception
ExceptionSubclasses ==
    {"ClientError", "TimeoutError", "XMLSyntaxError", "AttributeError",
     "InvalidURL", "TypeError", "RuntimeError"}

\* What session.get raises when the device cannot be reached in time
NetErrors == {"ClientError", "TimeoutError"}
\* What objectify.fromstring and the attribute lookup after it raise
DecodeErrors == {"XMLSyntaxError", "AttributeError"}

\* A faulty variant of Catches: except aiohttp.ClientError as e
CatchesClientError(e) == e = "ClientError"

\* except Exception as e
Catches(e) == e \in ExceptionSubclasses

\* An exception e inside the try block of call: logged, and call returns None
Fail(tk, e) ==
    IF Catches(e)
    THEN [tk EXCEPT !.pc = "ret", !.doc = PyNone, !.exc = e]
    ELSE [tk EXCEPT !.pc = "done", !.raised = "call", !.ret = PyRaise(e), !.exc = e]

\* return objectify.fromstring(text)
ReturnDoc(tk, body) ==
    IF body.wf
    THEN [tk EXCEPT !.pc = "ret", !.doc = PyDoc(body)]
    ELSE Fail(tk, "XMLSyntaxError")

\* if not isinstance(extra, dict): extra = {}
ExtraDict(extra) == IF extra[1] = "dict" THEN extra[2] ELSE <<>>

\* A faulty variant of Params: the sid is left out
ParamsPinOnly(s, extra) == ExtraDict(extra) @@ [pin |-> PIN]

\* params of the first request: the pin, the sid if one is held, then extra
Params(s, extra) ==
    ExtraDict(extra) @@ (IF s # PyNone THEN [sid |-> s] ELSE <<>>) @@ [pin |-> PIN]

\* A faulty variant of RetrySid: the retried request reuses the params of the first
RetrySidStale(new, old) == old

\* The sid the retried request carries: the one create_session just returned
RetrySid(new, old) == new

\* params = {'pin': self.pin, 'sid': self.sid}; params.update(**extra)
RetryParams(s, extra) == ExtraDict(extra) @@ [pin |-> PIN, sid |-> s]

Req(kind, params) == [kind |-> kind, params |-> params, st |-> <<>>]

\* self.__session.get(url, params=params): the request goes out unless the
\* transport session is closed, the url has no endpoint or a parameter is None
Get(tk, ep, kind, params, next) ==
    IF session_closed THEN Fail(tk, "RuntimeError")
    ELSE IF Falsy(ep) THEN Fail(tk, "InvalidURL")
    ELSE IF \E k \in DOMAIN params : params[k] = PyNone THEN Fail(tk, "TypeError")
    ELSE [tk EXCEPT !.reqs = Append(@, Req(kind, params)), !.pc = next]

\* The request in flight is answered: st becomes the status of a main request,
\* and what the helper returned for a bootstrap or CREATE_SESSION request
Answer(tk, x) == [tk EXCEPT !.reqs[Len(tk.reqs)].st = <<x>>]

\* A faulty variant of NeedSession: if create_session
NeedSessionAlways(wants, s) == wants

\* create_session and not self.sid
NeedSession(wants, s) == wants /\ Falsy(s)

\* call, from the session test to the first request
AfterEndpoint(tk, ep, s) ==
    IF NeedSession(tk.wants, s)
    THEN Get(tk, ep, "CREATE_SESSION", [pin |-> PIN], "create1")
    ELSE Get(tk, ep, "MAIN", Params(s, tk.extra), "main")

\* result.status == 200
IsSuccess(status) == status = HTTP_OK

\* The requests of kind k in the log of a dispatch, in order
RECURSIVE OfKind(_, _)
OfKind(reqs, k) ==
    IF reqs = <<>> THEN <<>>
    ELSE IF Head(reqs).kind = k THEN <<Head(reqs)>> \o OfKind(Tail(reqs), k)
    ELSE OfKind(Tail(reqs), k)

\* The dispatch began with a sid and an endpoint held
HeldAtEntry(tk) == tk.sid0 # PyNone /\ tk.ep0 # PyNone

\* The first main request of the dispatch was answered with success
FirstOk(tk) ==
    LET main == OfKind(tk.reqs, "MAIN")
    IN  main # <<>> /\ main[1].st = <<HTTP_OK>>

\* Summary of a finished dispatch: the number of its requests when it began with
\* a sid and an endpoint and its first main request was answered with success
CallSummary(tk) ==
    IF HeldAtEntry(tk) /\ FirstOk(tk) THEN <<"call", Len(tk.reqs)>> ELSE PyNone

-----------------------------------------------------------------------------
(* The steps of call: one action per await *)

SidValue(n) == <<"sid", n>>
Endpoint == PyStr("http://device/fsapi")

Set(t, tk) == task' = [task EXCEPT ![t] = tk]

\* A request goes wrong
Fault == faults < MaxFaults /\ faults' = faults + 1

\* What every step of call leaves alone
CallFrame ==
    UNCHANGED <<intrusive, modes, volume_steps, equalisers, session_closed,
                devModes, lastCall, lastOp, nOps>>

\* A faulty variant of NeedEndpoint: the endpoint is looked up on every call
NeedEndpointAlways(ep) == TRUE

\* if not self.__webfsapi
NeedEndpoint(ep) == Falsy(ep)

\* call is entered: up to the first await (lines 150-170)
Enter(t) ==
    LET tk == [task[t] EXCEPT !.sid0 = sid, !.ep0 = webfsapi, !.reqs = <<>>,
                              !.doc = PyNone, !.exc = "", !.ncalls = @ + 1]
    IN  /\ task[t].pc = "enter"
        /\ IF NeedEndpoint(webfsapi)
           THEN Set(t, Get(tk, PyStr("fsapi_device_url"), "BOOT", <<>>, "boot"))
           ELSE Set(t, AfterEndpoint(tk, webfsapi, sid))
        /\ UNCHANGED <<sid, webfsapi, devMode, devSid, faults>>
        /\ CallFrame

\* get_fsapi_endpoint returns (lines 129-135, 152)
BootResp(t) ==
    /\ task[t].pc = "boot"
    /\ \/ \E e \in NetErrors \cup DecodeErrors :
            /\ Fault
            /\ Set(t, Fail(task[t], e))
            /\ UNCHANGED webfsapi
       \/ /\ Fault
          /\ webfsapi' = PyNone
          /\ Set(t, AfterEndpoint(Answer(task[t], PyNone), PyNone, sid))
       \/ /\ webfsapi' = Endpoint
          /\ Set(t, AfterEndpoint(Answer(task[t], Endpoint), Endpoint, sid))
          /\ UNCHANGED faults
    /\ UNCHANGED <<sid, devMode, devSid>>
    /\ CallFrame

\* After self.sid = await self.create_session() at line 155: lines 157-170
FirstRequest(tk, s) == Get(tk, webfsapi, "MAIN", Params(s, tk.extra), "main")

\* After self.sid = await self.create_session() at line 176: lines 177-180
RetryRequest(tk, s) ==
    Get(tk, webfsapi, "MAIN", RetryParams(RetrySid(s, sid), tk.extra), "retry")

\* What follows the assignment of self.sid, at line 155 or at line 176
AfterCreate(tk, s, site) ==
    IF site = "create1" THEN FirstRequest(tk, s) ELSE RetryRequest(tk, s)

\* A faulty variant of CreateResp: what create_session returns is not assigned
\* to self.sid
CreateRespDropped(t, site) ==
    \/ \E e \in NetErrors \cup DecodeErrors :
         /\ Fault
         /\ Set(t, Fail(task[t], e))
         /\ UNCHANGED <<sid, devSid>>
    \/ /\ Fault
       /\ Set(t, AfterCreate(Answer(task[t], PyNone), sid, site))
       /\ UNCHANGED <<sid, devSid>>
    \/ /\ devSid < MaxSid
       /\ devSid' = devSid + 1
       /\ Set(t, AfterCreate(Answer(task[t], SidValue(devSid')), sid, site))
       /\ UNCHANGED <<sid, faults>>

\* A faulty variant of CreateResp: self.sid is cleared when create_session
\* raises
CreateRespClears(t, site) ==
    \/ \E e \in NetErrors \cup DecodeErrors :
         /\ Fault
         /\ sid' = PyNone
         /\ Set(t, Fail(task[t], e))
         /\ UNCHANGED devSid
    \/ /\ Fault
       /\ sid' = PyNone
       /\ Set(t, AfterCreate(Answer(task[t], PyNone), sid', site))
       /\ UNCHANGED devSid
    \/ /\ devSid < MaxSid
       /\ devSid' = devSid + 1
       /\ sid' = SidValue(devSid')
       /\ Set(t, AfterCreate(Answer(task[t], sid'), sid', site))
       /\ UNCHANGED faults

\* The outcomes of create_session (lines 137-145): an exception, or the text of
\* <sessionId>, which is None when the element is empty
CreateResp(t, site) ==
    \/ \E e \in NetErrors \cup DecodeErrors :
         /\ Fault
         /\ Set(t, Fail(task[t], e))
         /\ UNCHANGED <<sid, devSid>>
    \/ /\ Fault
       /\ sid' = PyNone
       /\ Set(t, AfterCreate(Answer(task[t], PyNone), sid', site))
       /\ UNCHANGED devSid
    \/ /\ devSid < MaxSid
       /\ devSid' = devSid + 1
       /\ sid' = SidValue(devSid')
       /\ Set(t, AfterCreate(Answer(task[t], sid'), sid', site))
       /\ UNCHANGED faults

\* create_session returns to line 155
Create1Resp(t) ==
    /\ task[t].pc = "create1"
    /\ CreateResp(t, "create1")
    /\ UNCHANGED <<webfsapi, devMode>>
    /\ CallFrame

\* The first main request is answered (lines 169-176)
MainResp(t) ==
    /\ task[t].pc = "main"
    /\ \/ \E e \in NetErrors :
            /\ Fault
            /\ Set(t, Fail(task[t], e))
            /\ UNCHANGED devMode
       \/ \E st \in Statuses, body \in DeviceBodies(task[t].path) :
            /\ IF IsFault(st, body) THEN Fault ELSE UNCHANGED faults
            /\ devMode' = DeviceWrite(task[t].path, task[t].extra, st, body)
            /\ IF IsSuccess(st)
               THEN Set(t, ReturnDoc(Answer(task[t], st), body))
               ELSE Set(t, Get(Answer(task[t], st), webfsapi, "CREATE_SESSION",
                               [pin |-> PIN], "create2"))
    /\ UNCHANGED <<sid, webfsapi, devSid>>
    /\ CallFrame

\* create_session returns to line 176
Create2Resp(t) ==
    /\ task[t].pc = "create2"
    /\ CreateResp(t, "create2")
    /\ UNCHANGED <<webfsapi, devMode>>
    /\ CallFrame

\* The retried request is answered (lines 179-183)
RetryResp(t) ==
    /\ task[t].pc = "retry"
    /\ \/ \E e \in NetErrors :
            /\ Fault
            /\ Set(t, Fail(task[t], e))
            /\ UNCHANGED devMode
       \/ \E st \in Statuses, body \in DeviceBodies(task[t].path) :
            /\ IF IsFault(st, body) THEN Fault ELSE UNCHANGED faults
            /\ devMode' = DeviceWrite(task[t].path, task[t].extra, st, body)
            /\ Set(t, ReturnDoc(Answer(task[t], st), body))
    /\ UNCHANGED <<sid, webfsapi, devSid>>
    /\ CallFrame

-----------------------------------------------------------------------------
(* The typed accessors: what each makes of the document call returned *)

\* A faulty variant of StatusIsOk: any status counts as success
StatusIsPresent(d) == IF d.st = "" THEN PyRaise("AttributeError") ELSE PyBool(TRUE)

\* doc.status == 'FS_OK'; a document without <status> raises AttributeError
StatusIsOk(d) == IF d.st = "" THEN PyRaise("AttributeError") ELSE PyBool(d.st = "FS_OK")

\* handle_set, lines 200-203
HandleSet(doc) == IF doc = PyNone THEN PyNone ELSE StatusIsOk(doc[2])

\* doc.value.<typ>.text; a document without that child raises AttributeError
ValueText(d, typ) ==
    IF d.val = <<>> \/ d.val[1] # typ THEN PyRaise("AttributeError")
    ELSE IF typ = "c8_array" THEN PyStr(d.val[2]) ELSE PyInt(d.val[2])

Decode(doc, typ) ==
    IF doc = PyNone THEN PyNone
    ELSE LET v == ValueText(doc[2], typ)
         IN  IF v[1] = "raise" THEN v ELSE OrNone(v)

\* handle_text, lines 207-211
HandleText(doc) == Decode(doc, "c8_array")
\* handle_int, lines 215-219
HandleInt(doc) == Decode(doc, "u8")
\* handle_long, lines 224-228
HandleLong(doc) == Decode(doc, "u32")

\* temp = {'band': index}, then temp[field.get('name')] = ... for each field
RECURSIVE ItemMap(_, _)
ItemMap(temp, fields) ==
    IF fields = <<>> THEN temp
    ELSE ItemMap((Head(fields).name :> Head(fields).val) @@ temp, Tail(fields))

\* A faulty variant of BandOfIndex: enumerate(..., 1)
BandOneBased(i) == i

\* enumerate: the index of the i-th item of the document
BandOfIndex(i) == i - 1

\* handle_list, lines 237-250
HandleList(doc) ==
    IF doc = PyNone THEN PyList(<<>>)
    ELSE LET ok == StatusIsOk(doc[2])
         IN  IF ok[1] = "raise" THEN ok
             ELSE IF ~ok[2] THEN PyList(<<>>)
             ELSE PyList([i \in 1 .. Len(doc[2].items) |->
                            ItemMap("band" :> BandOfIndex(i), doc[2].items[i])])

\* The last of the indexes `hits` of a list, 0 when there is none: the item the
\* loop assigns last
LastIndex(hits) ==
    IF hits = {} THEN 0 ELSE CHOOSE i \in hits : \A j \in hits : j <= i

\* get_mode, lines 297-304: the label of the band, as str(mode)
ModeOfBand(l, int_mode) ==
    LET Test(m) == PyInt(m["band"]) = int_mode
        i == LastIndex({k \in 1 .. Len(l) : Test(l[k])})
    IN  IF \E k \in 1 .. Len(l) : Test(l[k]) /\ "label" \notin DOMAIN l[k]
        THEN PyRaise("KeyError")
        ELSE IF i = 0 THEN PyStr("None")
        ELSE PyStr(l[i]["label"])

\* set_mode, lines 308-312: the band of the label, -1 when no item has it
BandOfLabel(l, value) ==
    LET Test(m) == m["label"] = value
        i == LastIndex({k \in 1 .. Len(l) : Test(l[k])})
    IN  IF \E k \in 1 .. Len(l) : "label" \notin DOMAIN l[k] THEN PyRaise("KeyError")
        ELSE IF i = 0 THEN PyInt(-1)
        ELSE PyInt(l[i]["band"])

-----------------------------------------------------------------------------
(* The API methods *)

\* A faulty variant of CreateSessionArg: every call site leaves the default
CreateSessionArgDefault(site) == TRUE

\* The create_session argument of each call site (the default is True)
CreateSessionArg(site) ==
    CASE site = "handle_get" -> FALSE
      [] site = "handle_list" -> FALSE
      [] site = "close" -> FALSE
      [] OTHER -> TRUE

Dict(d) == <<"dict", d>>

\* A coroutine that has just been called
NewOp(op, arg) == [IdleTask EXCEPT !.op = op, !.arg = arg, !.stage = 1]

\* await self.call(path, extra, wants)
BeginCall(tk, path, extra, wants) ==
    [tk EXCEPT !.pc = "enter", !.path = path, !.extra = extra, !.wants = wants]

\* The method returns v, or raises it
Finish(tk, v) ==
    [tk EXCEPT !.pc = "done", !.ret = v,
               !.raised = IF v[1] = "raise" THEN "accessor" ELSE ""]

\* handle_get, line 194
CallGet(tk, item) ==
    BeginCall(tk, <<"GET", item>>, PyNone, CreateSessionArg("handle_get"))

\* handle_list, lines 233-235
CallList(tk, item) ==
    BeginCall(tk, <<"LIST_GET_NEXT", item>>, Dict([maxItems |-> PyInt(100)]),
              CreateSessionArg("handle_list"))

\* handle_set, line 199
CallSet(tk, item, value) ==
    BeginCall(tk, <<"SET", item>>, Dict([value |-> value]),
              CreateSessionArg("handle_set"))

\* Summary of a finished capability accessor or set_mode: the method, its
\* argument, what it returned and how many dispatches it made
OpSummary(tk) ==
    IF tk.op \in {"get_modes", "get_equalisers", "get_volume_steps", "set_mode"}
    THEN <<"op", [op |-> tk.op, arg |-> tk.arg, ret |-> tk.ret, ncalls |-> tk.ncalls]>>
    ELSE PyNone

\* A caller calls an API method on the instance
Begin(t, tk, bound) ==
    /\ task[t].pc \in {"idle", "done"}
    /\ nOps < bound
    /\ nOps' = nOps + 1
    /\ lastOp' = OpSummary(task[t])
    /\ Set(t, tk)
    /\ UNCHANGED <<intrusive, sid, webfsapi, modes, volume_steps, equalisers,
                   devMode, devModes, devSid, faults, lastCall>>

\* call has returned to the method that awaited it
Returned(t, ops) ==
    /\ task[t].pc = "ret"
    /\ task[t].op \in ops
    /\ lastCall' = CallSummary(task[t])
    /\ UNCHANGED <<intrusive, sid, webfsapi, devMode, devModes, devSid, faults,
                   lastOp, nOps>>

\* The paths and parameters a caller of call passes
CallPaths == {<<"GET", "power">>, <<"SET", "volume">>}
CallExtra(path) == IF path[1] = "SET" THEN Dict([value |-> PyInt(1)]) ELSE PyNone

\* call(path, extra, create_session) called directly
StartCall(t) ==
    \E path \in CallPaths, wants \in BOOLEAN :
        /\ Begin(t, BeginCall(NewOp("call", <<path, wants>>), path,
                              CallExtra(path), wants), MaxOps)
        /\ UNCHANGED session_closed

ContCall(t) ==
    /\ Returned(t, {"call"})
    /\ Set(t, Finish(task[t], task[t].doc))
    /\ UNCHANGED <<modes, volume_steps, equalisers, session_closed>>

\* The read accessors and the node each is called with here
ReadOps == {"handle_text", "handle_int", "handle_long", "handle_list"}
ReadItem(op) ==
    CASE op = "handle_text" -> "friendly_name"
      [] op = "handle_int" -> "power"
      [] op = "handle_long" -> "mode"
      [] OTHER -> "valid_modes"

\* handle_text, handle_int, handle_long, handle_list
StartRead(t) ==
    \E op \in ReadOps :
        /\ Begin(t, IF op = "handle_list"
                    THEN CallList(NewOp(op, <<ReadItem(op)>>), ReadItem(op))
                    ELSE CallGet(NewOp(op, <<ReadItem(op)>>), ReadItem(op)), MaxOps)
        /\ UNCHANGED session_closed

ReadResult(op, doc) ==
    CASE op = "handle_text" -> HandleText(doc)
      [] op = "handle_int" -> HandleInt(doc)
      [] op = "handle_long" -> HandleLong(doc)
      [] OTHER -> HandleList(doc)

ContRead(t) ==
    /\ Returned(t, ReadOps)
    /\ Set(t, Finish(task[t], ReadResult(task[t].op, task[t].doc)))
    /\ UNCHANGED <<modes, volume_steps, equalisers, session_closed>>

\* handle_set(item, value)
StartSet(t) ==
    /\ Begin(t, CallSet(NewOp("handle_set", <<"volume", 1>>), "volume", PyInt(1)), MaxOps)
    /\ UNCHANGED session_closed

ContSet(t) ==
    /\ Returned(t, {"handle_set"})
    /\ Set(t, Finish(task[t], HandleSet(task[t].doc)))
    /\ UNCHANGED <<modes, volume_steps, equalisers, session_closed>>

\* A faulty variant of NotCached: the test of the cache is dropped
NotCachedEver(c) == TRUE

\* if not self.__modes, if not self.__volume_steps, if not self.__equalisers
NotCached(c) == Falsy(c)

CachedOps == {"get_modes", "get_equalisers", "get_volume_steps"}
Cache(op) ==
    CASE op = "get_modes" -> modes
      [] op = "get_equalisers" -> equalisers
      [] OTHER -> volume_steps

\* The fetch behind each capability
CallFetch(tk, op) ==
    CASE op = "get_modes" -> CallList(tk, "valid_modes")
      [] op = "get_equalisers" -> CallList(tk, "equalisers")
      [] OTHER -> CallGet(tk, "volume_steps")

\* get_modes, get_equalisers, get_volume_steps
StartCached(t) ==
    \E op \in CachedOps :
        /\ IF NotCached(Cache(op))
           THEN Begin(t, CallFetch(NewOp(op, <<>>), op), MaxCapOps)
           ELSE Begin(t, Finish(NewOp(op, <<>>), Cache(op)), MaxCapOps)
        /\ UNCHANGED session_closed

ContCached(t) ==
    LET op == task[t].op
        v == IF op = "get_volume_steps" THEN HandleInt(task[t].doc)
             ELSE HandleList(task[t].doc)
        keep == v[1] = "raise"
    IN  /\ Returned(t, CachedOps)
        /\ modes' = IF op = "get_modes" /\ ~keep THEN v ELSE modes
        /\ equalisers' = IF op = "get_equalisers" /\ ~keep THEN v ELSE equalisers
        /\ volume_steps' = IF op = "get_volume_steps" /\ ~keep THEN v ELSE volume_steps
        /\ Set(t, Finish(task[t], v))
        /\ UNCHANGED session_closed

\* get_mode, line 298
StartGetMode(t) ==
    /\ Begin(t, CallGet(NewOp("get_mode", <<>>), "mode"), MaxCapOps)
    /\ UNCHANGED session_closed

\* get_mode, lines 298-304, with get_modes inlined
ContGetMode(t) ==
    LET tk == task[t]
        int_mode == HandleLong(tk.doc)
        fetched == HandleList(tk.doc)
    IN  /\ Returned(t, {"get_mode"})
        /\ IF tk.stage = 1
           THEN /\ UNCHANGED modes
                /\ IF int_mode[1] = "raise" THEN Set(t, Finish(tk, int_mode))
                   ELSE IF NotCached(modes)
                   THEN Set(t, CallList([tk EXCEPT !.loc = int_mode, !.stage = 2],
                                        "valid_modes"))
                   ELSE Set(t, Finish(tk, ModeOfBand(modes[2], int_mode)))
           ELSE IF fetched[1] = "raise"
                THEN /\ UNCHANGED modes
                     /\ Set(t, Finish(tk, fetched))
                ELSE /\ modes' = fetched
                     /\ Set(t, Finish(tk, ModeOfBand(fetched[2], tk.loc)))
        /\ UNCHANGED <<volume_steps, equalisers, session_closed>>

\* The labels a caller passes to set_mode
SetLabels == {ModeLabels[i] : i \in 1 .. Len(ModeLabels)} \cup {"AUX"}

\* set_mode, lines 308-314, once the modes are known
SetBand(tk, l, value) ==
    LET mode == BandOfLabel(l, value)
    IN  IF mode[1] = "raise" THEN Finish(tk, mode)
        ELSE CallSet([tk EXCEPT !.stage = 2, !.loc = mode], "mode", mode)

StartSetMode(t) ==
    \E value \in SetLabels :
        /\ IF NotCached(modes)
           THEN Begin(t, CallList(NewOp("set_mode", <<value>>), "valid_modes"), MaxCapOps)
           ELSE Begin(t, SetBand(NewOp("set_mode", <<value>>), modes[2], value), MaxCapOps)
        /\ UNCHANGED session_closed

ContSetMode(t) ==
    LET tk == task[t]
        fetched == HandleList(tk.doc)
    IN  /\ Returned(t, {"set_mode"})
        /\ IF tk.stage = 2
           THEN /\ UNCHANGED modes
                /\ Set(t, Finish(tk, HandleSet(tk.doc)))
           ELSE IF fetched[1] = "raise"
                THEN /\ UNCHANGED modes
                     /\ Set(t, Finish(tk, fetched))
                ELSE /\ modes' = fetched
                     /\ Set(t, SetBand(tk, fetched[2], tk.arg[1]))
        /\ UNCHANGED <<volume_steps, equalisers, session_closed>>

\* close, lines 114-116, and __aexit__
StartClose(t) ==
    IF sid # PyNone
    THEN /\ Begin(t, BeginCall(NewOp("close", <<>>), <<"DELETE_SESSION", "">>,
                               PyNone, CreateSessionArg("close")), MaxOps)
         /\ UNCHANGED session_closed
    ELSE /\ Begin(t, Finish(NewOp("close", <<>>), PyNone), MaxOps)
         /\ session_closed' = TRUE

\* A faulty variant of ContClose: the transport session is closed only when the
\* DELETE_SESSION call returned a document
ContCloseOnSuccess(t) ==
    /\ Returned(t, {"close"})
    /\ session_closed' = (session_closed \/ task[t].doc # PyNone)
    /\ Set(t, Finish(task[t], PyNone))
    /\ UNCHANGED <<modes, volume_steps, equalisers>>

\* close, line 116, after the DELETE_SESSION call
ContClose(t) ==
    /\ Returned(t, {"close"})
    /\ session_closed' = TRUE
    /\ Set(t, Finish(task[t], PyNone))
    /\ UNCHANGED <<modes, volume_steps, equalisers>>

\* collect_labels, lines 254-257: the labels that are not empty, in order; an
\* item without the key 'label' raises KeyError
CollectLabels(items) ==
    IF items = PyNone THEN PyList(<<>>)
    ELSE LET l == items[2]
             Present(m) == m["label"] # ""
         IN  IF \E k \in 1 .. Len(l) : "label" \notin DOMAIN l[k]
             THEN PyRaise("KeyError")
             ELSE LET kept == SelectSeq(l, Present)
                  IN  PyList([i \in 1 .. Len(kept) |-> kept[i]["label"]])

\* get_mode_list, lines 292-293, with get_modes inlined
StartModeList(t, bound) ==
    /\ IF NotCached(modes)
       THEN Begin(t, CallList(NewOp("get_mode_list", <<>>), "valid_modes"), bound)
       ELSE Begin(t, Finish(NewOp("get_mode_list", <<>>), CollectLabels(modes)), bound)
    /\ UNCHANGED session_closed

ContModeList(t) ==
    LET fetched == HandleList(task[t].doc)
    IN  /\ Returned(t, {"get_mode_list"})
        /\ IF fetched[1] = "raise"
           THEN /\ UNCHANGED modes
                /\ Set(t, Finish(task[t], fetched))
           ELSE /\ modes' = fetched
                /\ Set(t, Finish(task[t], CollectLabels(fetched)))
        /\ UNCHANGED <<volume_steps, equalisers, session_closed>>

\* handle_list('netRemote.sys.caps.validModes')
StartList(t) ==
    /\ Begin(t, CallList(NewOp("handle_list", <<"valid_modes">>), "valid_modes"),
             MaxListOps)
    /\ UNCHANGED session_closed

\* A faulty variant of GetPowerResult: return power
GetPowerRaw(power) == power

\* get_power, line 274: bool(power)
GetPowerResult(power) == PyBool(~Falsy(power))

\* get_power, line 273
StartGetPower(t) ==
    /\ Begin(t, CallGet(NewOp("get_power", <<>>), "power"), MaxApiOps)
    /\ UNCHANGED session_closed

ContGetPower(t) ==
    LET power == HandleInt(task[t].doc)
    IN  /\ Returned(t, {"get_power"})
        /\ Set(t, Finish(task[t], IF power[1] = "raise" THEN power
                                  ELSE GetPowerResult(power)))
        /\ UNCHANGED <<modes, volume_steps, equalisers, session_closed>>

\* get_volume, line 328: 0 if vol is None else vol
GetVolumeResult(vol) == IF vol = PyNone THEN PyInt(0) ELSE vol

\* get_volume, line 327
StartGetVolume(t) ==
    /\ Begin(t, CallGet(NewOp("get_volume", <<>>), "volume"), MaxApiOps)
    /\ UNCHANGED session_closed

ContGetVolume(t) ==
    LET vol == HandleInt(task[t].doc)
    IN  /\ Returned(t, {"get_volume"})
        /\ Set(t, Finish(task[t], IF vol[1] = "raise" THEN vol
                                  ELSE GetVolumeResult(vol)))
        /\ UNCHANGED <<modes, volume_steps, equalisers, session_closed>>

\* set_volume(value), line 332
StartSetVolume(t) ==
    \E value \in 0 .. MaxVal :
        /\ Begin(t, CallSet(NewOp("set_volume", <<value>>), "volume", PyInt(value)),
                 MaxApiOps)
        /\ UNCHANGED session_closed

ContSetVolume(t) ==
    /\ Returned(t, {"set_volume"})
    /\ Set(t, Finish(task[t], HandleSet(task[t].doc)))
    /\ UNCHANGED <<modes, volume_steps, equalisers, session_closed>>

\* handle_set(item, value) called by a caller of the methods above
StartApiSet(t) ==
    /\ Begin(t, CallSet(NewOp("handle_set", <<"volume", 1>>), "volume", PyInt(1)),
             MaxApiOps)
    /\ UNCHANGED session_closed

\* handle_set(item, value) called by one of several concurrent callers
StartConcSet(t) ==
    /\ Begin(t, CallSet(NewOp("handle_set", <<"volume", 1>>), "volume", PyInt(1)),
             MaxConcOps)
    /\ UNCHANGED session_closed

\* get_mode_list called by a caller of the methods above
StartApiModeList(t) == StartModeList(t, MaxApiOps)

\* get_mode_list called by a caller of the list methods
StartListModeList(t) == StartModeList(t, MaxListOps)

\* handle_set(item, value) called by a caller of the list methods
StartListSet(t) ==
    /\ Begin(t, CallSet(NewOp("handle_set", <<"volume", 1>>), "volume", PyInt(1)),
             MaxListOps)
    /\ UNCHANGED session_closed

-----------------------------------------------------------------------------
(* The specification *)

\* The client after __init__, and the device but for its list of modes
InitClient ==
    /\ intrusive \in BOOLEAN
    /\ sid = PyNone
    /\ webfsapi = PyNone
    /\ modes = PyNone
    /\ volume_steps = PyNone
    /\ equalisers = PyNone
    /\ session_closed = FALSE
    /\ devMode \in Bands
    /\ devSid = 0
    /\ faults = 0
    /\ task = [t \in Tasks |-> IdleTask]
    /\ lastCall = PyNone
    /\ lastOp = PyNone
    /\ nOps = 0

Init == InitClient /\ devModes = DevItems(ModeLabels)

\* The steps of a dispatch
CallStep(t) ==
    \/ Enter(t)
    \/ BootResp(t)
    \/ Create1Resp(t)
    \/ MainResp(t)
    \/ Create2Resp(t)
    \/ RetryResp(t)

\* One caller of the dispatcher, the typed accessors and close, awaiting each
\* method before it calls the next
Next ==
    \E t \in SeqTasks :
        \/ StartCall(t)
        \/ StartRead(t)
        \/ StartSet(t)
        \/ StartClose(t)
        \/ CallStep(t)
        \/ ContCall(t)
        \/ ContRead(t)
        \/ ContSet(t)
        \/ ContClose(t)

Spec == Init /\ [][Next]_vars

\* A client constructed with the default intrusive=False
InitCaps == Init /\ intrusive = FALSE

\* One caller of the capability and mode methods, awaiting each method before
\* it calls the next
NextCaps ==
    \E t \in SeqTasks :
        \/ StartCached(t)
        \/ StartGetMode(t)
        \/ StartSetMode(t)
        \/ CallStep(t)
        \/ ContCached(t)
        \/ ContGetMode(t)
        \/ ContSetMode(t)

SpecCaps == InitCaps /\ [][NextCaps]_vars

\* One caller of get_power, get_volume, set_volume, handle_set and
\* get_mode_list, awaiting each method before it calls the next
NextApi ==
    \E t \in SeqTasks :
        \/ StartGetPower(t)
        \/ StartGetVolume(t)
        \/ StartSetVolume(t)
        \/ StartApiSet(t)
        \/ StartApiModeList(t)
        \/ CallStep(t)
        \/ ContGetPower(t)
        \/ ContGetVolume(t)
        \/ ContSetVolume(t)
        \/ ContSet(t)
        \/ ContModeList(t)

SpecApi == InitCaps /\ [][NextApi]_vars

\* A client whose device holds any list of modes
InitList == InitClient /\ intrusive = FALSE /\ devModes \in ListDocs

\* One caller of handle_list, get_mode_list and handle_set
NextList ==
    \E t \in SeqTasks :
        \/ StartList(t)
        \/ StartListModeList(t)
        \/ StartListSet(t)
        \/ CallStep(t)
        \/ ContRead(t)
        \/ ContModeList(t)
        \/ ContSet(t)

SpecList == InitList /\ [][NextList]_vars

\* Callers that call handle_set on the same instance without awaiting each
\* other: the coroutines interleave at their awaits
NextConc ==
    \E t \in Tasks :
        \/ StartConcSet(t)
        \/ CallStep(t)
        \/ ContSet(t)

SpecConc == InitCaps /\ [][NextConc]_vars

-----------------------------------------------------------------------------
(* Properties of the dispatcher *)

\* call has returned to the method that awaited it
CallDone(t) == task[t].pc = "ret"

Main(t) == OfKind(task[t].reqs, "MAIN")
Creates(t) == OfKind(task[t].reqs, "CREATE_SESSION")

\* The first main request of the dispatch was answered with a status that is not
\* success
FirstFailed(t) == Main(t) # <<>> /\ Main(t)[1].st \notin {<<>>, <<HTTP_OK>>}

\* The position in the log of the first main request
FirstMainAt(t) ==
    CHOOSE i \in 1 .. Len(task[t].reqs) :
        /\ task[t].reqs[i].kind = "MAIN"
        /\ \A j \in 1 .. (i - 1) : task[t].reqs[j].kind # "MAIN"

\* The requests of the dispatch after its first main request
Recovery(t) == SubSeq(task[t].reqs, FirstMainAt(t) + 1, Len(task[t].reqs))

\* C1 as stated: a dispatch whose first main request is answered with a status
\* that is not success issues exactly one CREATE_SESSION in all, and exactly one
\* more main request, which carries the sid just created.
C1_Original ==
    \A t \in Tasks :
        (CallDone(t) /\ FirstFailed(t)) =>
            /\ Len(Creates(t)) = 1
            /\ Len(Main(t)) = 2
            /\ Main(t)[2].params["sid"] = Creates(t)[1].st[1]

\* C1 amended: after a first main request answered with a status that is not
\* success the dispatch issues exactly one CREATE_SESSION; when that returns a
\* session id, exactly one more main request follows, carrying the pin and that
\* new id, which differs from the id held at entry and from the one the first
\* request carried; when it does not, no further request follows.  A third main
\* request is never issued.
C1_RetryOnce ==
    \A t \in Tasks :
        (CallDone(t) /\ FirstFailed(t)) =>
            LET rec == Recovery(t)
                new == rec[1].st
            IN  /\ rec # <<>>
                /\ rec[1].kind = "CREATE_SESSION"
                /\ Len(Main(t)) <= 2
                /\ IF new # <<>> /\ new # <<PyNone>>
                   THEN /\ Len(rec) = 2
                        /\ rec[2].kind = "MAIN"
                        /\ rec[2].params["sid"] = new[1]
                        /\ rec[2].params["pin"] = PIN
                        /\ new[1] # task[t].sid0
                        /\ "sid" \in DOMAIN Main(t)[1].params
                             => Main(t)[1].params["sid"] # new[1]
                   ELSE Len(rec) = 1

\* C1 witness: both main requests were answered with a status that is not
\* success, and the second carried the sid created in between.
C1_Witness ==
    \E t \in Tasks :
        /\ CallDone(t) /\ FirstFailed(t)
        /\ Len(Main(t)) = 2
        /\ Main(t)[2].st \notin {<<>>, <<HTTP_OK>>}
        /\ Main(t)[2].params["sid"] = sid

\* C2: when the first main request and the retried request are both answered
\* with a status that is not success, call returns None.
C2_SecondFailureIsEmpty ==
    \A t \in Tasks :
        (/\ CallDone(t) /\ FirstFailed(t)
         /\ Len(Main(t)) = 2
         /\ Main(t)[2].st \notin {<<>>, <<HTTP_OK>>}) => task[t].doc = PyNone

\* C3: call never raises: an exception raised at any of its awaits or while
\* decoding ends the call with None returned.
C3_CallNeverRaises ==
    \A t \in Tasks :
        /\ task[t].raised # "call"
        /\ task[t].exc # "" =>
             /\ task[t].pc \in {"ret", "done"}
             /\ task[t].doc = PyNone

\* C3 witness: the retried request got no answer and call returned None.
C3_Witness ==
    \E t \in Tasks :
        /\ CallDone(t) /\ task[t].doc = PyNone
        /\ task[t].exc \in NetErrors
        /\ Len(Main(t)) = 2 /\ Main(t)[2].st = <<>>

\* C4: of two dispatches in a row that each begin with a sid and an endpoint
\* held and whose main request is answered with success, each issues exactly
\* one request, the main one.
C4_OneRequestPerDispatch ==
    \A t \in Tasks :
        (/\ CallDone(t) /\ HeldAtEntry(task[t]) /\ FirstOk(task[t])
         /\ lastCall # PyNone) =>
            /\ lastCall[2] = 1
            /\ Len(task[t].reqs) = 1
            /\ task[t].reqs[1].kind = "MAIN"

\* C4 witness: the second of two such dispatches has returned, and it was one
\* that asks for a session.
C4_Witness ==
    \E t \in Tasks :
        /\ CallDone(t) /\ HeldAtEntry(task[t]) /\ FirstOk(task[t])
        /\ task[t].wants
        /\ lastCall = <<"call", 1>>

\* C5: on an intrusive client that holds no sid, the main request of a read
\* accessor comes after a CREATE_SESSION and carries a sid.
C5_IntrusiveReadCreatesSession ==
    \A t \in Tasks :
        (/\ CallDone(t) /\ intrusive /\ task[t].op \in ReadOps
         /\ task[t].sid0 = PyNone /\ Main(t) # <<>>) =>
            /\ Creates(t) # <<>>
            /\ task[t].reqs[FirstMainAt(t) - 1].kind = "CREATE_SESSION"
            /\ "sid" \in DOMAIN Main(t)[1].params

\* C6: on a client that is not intrusive, a read accessor whose main request is
\* answered with success issues no CREATE_SESSION and leaves the sid as it was;
\* when no sid is held the request carries the pin and no sid.
C6_ReadsCreateNoSession ==
    \A t \in Tasks :
        (/\ CallDone(t) /\ ~intrusive /\ task[t].op \in ReadOps
         /\ FirstOk(task[t])) =>
            /\ Creates(t) = <<>>
            /\ Len(Main(t)) = 1
            /\ sid = task[t].sid0
            /\ "pin" \in DOMAIN Main(t)[1].params
            /\ task[t].sid0 = PyNone => "sid" \notin DOMAIN Main(t)[1].params

\* C6 witness: a read accessor's dispatch has returned a document on a client
\* that held and holds no sid.
C6_Witness ==
    \E t \in Tasks :
        /\ CallDone(t) /\ ~intrusive /\ task[t].op \in ReadOps
        /\ FirstOk(task[t]) /\ task[t].doc # PyNone
        /\ task[t].sid0 = PyNone /\ sid = PyNone

\* close has returned
CloseDone(t) == task[t].op = "close" /\ task[t].pc = "done"

\* C7: after close has returned, self.sid is None.
C7_CloseClearsSid == \A t \in Tasks : CloseDone(t) => sid = PyNone

\* C8: when close has returned, the transport session is closed and nothing was
\* raised, whatever became of the DELETE_SESSION call.
C8_CloseReleases ==
    \A t \in Tasks : CloseDone(t) => session_closed /\ task[t].raised = ""

\* C8 witness: close has returned after a DELETE_SESSION request that got no
\* answer.
C8_Witness ==
    \E t \in Tasks :
        /\ CloseDone(t) /\ session_closed
        /\ task[t].path[1] = "DELETE_SESSION"
        /\ task[t].exc \in NetErrors
        /\ Main(t) # <<>> /\ Main(t)[1].st = <<>>

-----------------------------------------------------------------------------
(* Properties of the capability cache and of the mode methods *)

\* Capability accessor op has returned, right after a call of the same accessor
Twice(t) ==
    /\ task[t].pc = "done" /\ task[t].op \in CachedOps
    /\ lastOp # PyNone /\ lastOp[2].op = task[t].op

\* C9 as stated: two consecutive calls of a capability accessor make at most one
\* fetch between them, whatever the first returned.
C9_Original ==
    \A t \in Tasks : Twice(t) => lastOp[2].ncalls + task[t].ncalls <= 1

\* C9 amended: when the first of two consecutive calls of a capability accessor
\* returned a list that is not empty (for the volume steps, a number that is not
\* zero), the two make at most one fetch between them and the second returns
\* the cached value without a fetch; when the first returned an empty list or
\* None, or raised, the second fetches again.
C9_CachedOnceFilled ==
    \A t \in Tasks :
        Twice(t) =>
            IF lastOp[2].ret[1] # "raise" /\ ~Falsy(lastOp[2].ret)
            THEN /\ lastOp[2].ncalls <= 1
                 /\ task[t].ncalls = 0
                 /\ task[t].ret = lastOp[2].ret
            ELSE task[t].ncalls = 1

\* C9 witness: get_modes fetched the list, and the call after it returned the
\* same list without a fetch.
C9_Witness ==
    \E t \in Tasks :
        /\ Twice(t) /\ task[t].op = "get_modes"
        /\ lastOp[2].ncalls = 1 /\ task[t].ncalls = 0
        /\ task[t].ret = PyList(HandleList(PyDoc(Doc("FS_OK", <<>>, DevItems(ModeLabels))))[2])

\* The band of label in the cached mode list, -1 when it has none
CachedBand(label) ==
    IF modes[1] = "list" THEN BandOfLabel(modes[2], label)[2] ELSE -1

\* get_mode has returned right after set_mode(label) for a label of the cached
\* list, the device stores the band of that label and has reported it
RoundTrip(t, label) ==
    /\ task[t].pc = "done" /\ task[t].op = "get_mode"
    /\ lastOp # PyNone /\ lastOp[2].op = "set_mode"
    /\ lastOp[2].arg = <<label>> /\ lastOp[2].ret = PyBool(TRUE)
    /\ CachedBand(label) \in Bands
    /\ devMode = CachedBand(label)
    /\ task[t].stage = 1
    /\ task[t].doc = PyDoc(Doc("FS_OK", <<"u32", devMode>>, <<>>))

\* C10: set_mode(label) followed by get_mode() returns label, for every label of
\* the cached mode list, when the device stores the band and reports it.
C10_ModeRoundTrip ==
    \A t \in Tasks : \A label \in SetLabels :
        RoundTrip(t, label) => task[t].ret = PyStr(label)

\* The round trip for the labels whose band is not 0
C10_RoundTripAboveZero ==
    \A t \in Tasks : \A label \in SetLabels :
        (RoundTrip(t, label) /\ CachedBand(label) # 0) => task[t].ret = PyStr(label)

-----------------------------------------------------------------------------
(* Properties of the typed accessors *)

\* A typed accessor has returned or raised
AccessorDone(t) ==
    task[t].pc = "done" /\ task[t].op \in ReadOps \cup {"handle_set"}

\* C11: a read or write accessor never raises: whatever the device answers, a
\* document without the expected value or status element included, it returns
\* its default.
C11_AccessorsNeverRaise ==
    \A t \in Tasks : AccessorDone(t) => task[t].ret[1] # "raise"

\* The dispatch ended at the bootstrap GET, which got no answer
BootUnreachable(t) ==
    /\ task[t].pc \in {"ret", "done"}
    /\ task[t].reqs # <<>>
    /\ task[t].reqs[1].kind = "BOOT" /\ task[t].reqs[1].st = <<>>
    /\ task[t].exc \in NetErrors

\* What each method returns when it has no document to read
DefaultOf(op) ==
    CASE op = "get_power" -> PyBool(FALSE)
      [] op = "get_volume" -> PyInt(0)
      [] op \in {"get_mode_list", "handle_list"} -> PyList(<<>>)
      [] OTHER -> PyNone

\* C12: when the bootstrap GET gets no answer the dispatch issues no other
\* request and returns None, and the method built on it returns its default
\* without raising: get_power False, get_volume 0, the list methods [].
C12_UnreachableGivesDefaults ==
    \A t \in Tasks :
        BootUnreachable(t) =>
            /\ Len(task[t].reqs) = 1
            /\ task[t].doc = PyNone
            /\ task[t].pc = "done" =>
                 /\ task[t].raised = ""
                 /\ task[t].ret = DefaultOf(task[t].op)

\* C12 witness: get_power has returned False after a bootstrap GET that got no
\* answer.
C12_Witness ==
    \E t \in Tasks :
        /\ BootUnreachable(t) /\ task[t].pc = "done"
        /\ task[t].op = "get_power" /\ task[t].ret = PyBool(FALSE)

\* handle_set or set_volume has returned or raised
SetDone(t) == task[t].pc = "done" /\ task[t].op \in {"handle_set", "set_volume"}

\* The last main request of the dispatch was answered with success
LastOk(t) == Main(t) # <<>> /\ Main(t)[Len(Main(t))].st = <<HTTP_OK>>

\* C13: handle_set and set_volume return True exactly when the dispatch returned
\* a document whose status is FS_OK, False when it returned a document with
\* another status, the device having answered with success, and None when it
\* returned no document.
C13_SetterResult ==
    \A t \in Tasks :
        SetDone(t) =>
            LET doc == task[t].doc
            IN  /\ (task[t].ret = PyBool(TRUE)) <=> (doc # PyNone /\ doc[2].st = "FS_OK")
                /\ (doc # PyNone /\ doc[2].st \notin {"", "FS_OK"} /\ LastOk(t))
                      => task[t].ret = PyBool(FALSE)
                /\ doc = PyNone => task[t].ret = PyNone

\* C13 witness: set_volume has returned False for a document with status
\* FS_FAIL that the device sent with HTTP success.
C13_Witness ==
    \E t \in Tasks :
        /\ SetDone(t) /\ task[t].op = "set_volume"
        /\ task[t].doc = PyDoc(Doc("FS_FAIL", <<>>, <<>>)) /\ LastOk(t)
        /\ task[t].ret = PyBool(FALSE)

\* The dispatch of method op has returned a LIST_GET_NEXT document with status
\* FS_OK, and the method has returned or raised
ListDone(t, op) ==
    /\ task[t].pc = "done" /\ task[t].op = op
    /\ task[t].doc # PyNone /\ task[t].doc[2].st = "FS_OK"

\* The text of the label field of an item of the document, "" when it has none
LabelOf(fields) ==
    IF \E k \in 1 .. Len(fields) : fields[k].name = "label"
    THEN fields[CHOOSE k \in 1 .. Len(fields) : fields[k].name = "label"].val
    ELSE ""

\* C14: handle_list of a document with status FS_OK and N items returns N maps
\* in document order, the k-th with band k-1 and with every field of the k-th
\* item, whatever the order of the fields; get_mode_list over items that all have
\* a label returns the labels in document order.
C14_ListDecoding ==
    \A t \in Tasks :
        /\ ListDone(t, "handle_list") =>
             LET items == task[t].doc[2].items
                 ret == task[t].ret
             IN  /\ ret[1] = "list"
                 /\ Len(ret[2]) = Len(items)
                 /\ \A k \in 1 .. Len(items) :
                      /\ ret[2][k]["band"] = k - 1
                      /\ DOMAIN ret[2][k] =
                           {"band"} \cup {items[k][j].name : j \in 1 .. Len(items[k])}
                      /\ \A j \in 1 .. Len(items[k]) :
                           ret[2][k][items[k][j].name] = items[k][j].val
        /\ ListDone(t, "get_mode_list") =>
             LET items == task[t].doc[2].items
             IN  (\A k \in 1 .. Len(items) : LabelOf(items[k]) # "")
                     => task[t].ret = PyList([k \in 1 .. Len(items) |-> LabelOf(items[k])])

\* C14 witness: handle_list has decoded three items whose fields come in
\* different orders.
C14_Witness ==
    \E t \in Tasks :
        /\ ListDone(t, "handle_list")
        /\ task[t].doc[2].items =
             <<<<Field("key", "K"), Field("label", "DAB")>>,
               <<Field("label", "FM"), Field("key", "K")>>,
               <<Field("key", "K"), Field("label", "DAB")>>>>
        /\ Len(task[t].ret[2]) = 3
        /\ task[t].ret[2][3]["band"] = 2 /\ task[t].ret[2][2]["label"] = "FM"

\* get_mode_list over three items with labels has returned them in order
ModeListOfThree ==
    \E t \in Tasks :
        /\ ListDone(t, "get_mode_list")
        /\ task[t].ret = PyList(<<"FM", "DAB", "FM">>)

\* C15: collect_labels keeps the labels that are present, in order, and skips
\* the items whose label is missing or empty without failing: get_mode_list
\* returns the labels of the list that are not empty, [] when there is none.
C15_CollectLabels ==
    \A t \in Tasks :
        ListDone(t, "get_mode_list") =>
            LET items == task[t].doc[2].items
                Present(fields) == LabelOf(fields) # ""
                kept == SelectSeq(items, Present)
            IN  task[t].ret = PyList([k \in 1 .. Len(kept) |-> LabelOf(kept[k])])

\* collect_labels over items whose labels are present or empty, none missing
C15_LabelsPresentOrEmpty ==
    \A t \in Tasks :
        ListDone(t, "get_mode_list") =>
            LET items == task[t].doc[2].items
                Present(fields) == LabelOf(fields) # ""
                kept == SelectSeq(items, Present)
            IN  (\A k \in 1 .. Len(items) :
                    \E j \in 1 .. Len(items[k]) : items[k][j].name = "label")
                  => task[t].ret = PyList([k \in 1 .. Len(kept) |-> LabelOf(kept[k])])

-----------------------------------------------------------------------------
(* Properties of the endpoint and of the session *)

\* The bootstrap requests of the dispatch
Boots(t) == OfKind(task[t].reqs, "BOOT")

\* C16: the endpoint is None until a bootstrap GET returns one; once it is set
\* no step changes it, and a dispatch that begins with it set issues no
\* bootstrap GET.
C16_EndpointIdempotent ==
    [][/\ webfsapi # PyNone => webfsapi' = webfsapi
       /\ (webfsapi = PyNone /\ webfsapi' # PyNone) =>
            \E t \in Tasks :
                /\ task[t].pc = "boot"
                /\ task'[t].reqs[1].kind = "BOOT"
                /\ task'[t].reqs[1].st = <<webfsapi'>>
       /\ \A t \in Tasks : task'[t].ep0 # PyNone => OfKind(task'[t].reqs, "BOOT") = <<>>
      ]_vars

\* C16 witness: a dispatch that began with the endpoint set has returned a
\* document after one that discovered it.
C16_Witness ==
    \E t \in Tasks :
        /\ CallDone(t) /\ task[t].ep0 = Endpoint /\ webfsapi = Endpoint
        /\ task[t].doc # PyNone /\ Boots(t) = <<>>
        /\ nOps >= 2

\* The dispatch of handle_set has returned
SetCallDone(t) == CallDone(t) /\ task[t].op = "handle_set"

\* The dispatch began on a fresh client, went as far as its main request, and
\* its CREATE_SESSION returned a session id
FreshSet(t) ==
    /\ SetCallDone(t)
    /\ task[t].sid0 = PyNone /\ task[t].ep0 = PyNone
    /\ Main(t) # <<>>
    /\ Creates(t) # <<>> /\ Creates(t)[1].st \notin {<<>>, <<PyNone>>}

\* On a fresh client the requests of handle_set begin bootstrap GET,
\* CREATE_SESSION, SET, and the SET carries the pin and the sid just created
ProactiveSession(t) ==
    FreshSet(t) =>
        /\ task[t].reqs[1].kind = "BOOT"
        /\ task[t].reqs[2].kind = "CREATE_SESSION"
        /\ task[t].reqs[3].kind = "MAIN"
        /\ Main(t)[1].params["pin"] = PIN
        /\ "sid" \in DOMAIN Main(t)[1].params
        /\ Main(t)[1].params["sid"] = Creates(t)[1].st[1]

\* C17 as stated: handle_set on a fresh client issues the bootstrap GET, then
\* CREATE_SESSION, then the SET with the pin and the new sid; a later handle_set
\* with the sid still held issues no CREATE_SESSION.
C17_Original ==
    \A t \in Tasks :
        /\ ProactiveSession(t)
        /\ (SetCallDone(t) /\ task[t].sid0 # PyNone) => Creates(t) = <<>>

\* C17 amended: handle_set on a fresh client issues the bootstrap GET, then
\* CREATE_SESSION, then the SET with the pin and the new sid; a later handle_set
\* with the sid still held issues no CREATE_SESSION before its SET, which
\* carries the held sid, and none at all when the SET is answered with success.
C17_ProactiveSession ==
    \A t \in Tasks :
        /\ ProactiveSession(t)
        /\ (SetCallDone(t) /\ task[t].sid0 # PyNone /\ Main(t) # <<>>) =>
             /\ task[t].reqs[1].kind = "MAIN"
             /\ Main(t)[1].params["sid"] = task[t].sid0
             /\ FirstOk(task[t]) => Creates(t) = <<>>

\* C17 witness: a later handle_set has sent its SET with the sid that an
\* earlier dispatch created, and nothing else.
C17_Witness ==
    \E t \in Tasks :
        /\ SetCallDone(t) /\ task[t].sid0 = SidValue(1) /\ sid = SidValue(1)
        /\ FirstOk(task[t]) /\ Len(task[t].reqs) = 1
        /\ nOps >= 2

\* handle_set on a fresh client has sent bootstrap GET, CREATE_SESSION and SET
FreshSetReached == \E t \in Tasks : FreshSet(t) /\ Len(task[t].reqs) = 3

\* The session id the first CREATE_SESSION of the dispatch returned
Created(t) == Creates(t)[1].st[1]

\* Two dispatches that want a session both found no sid held: each began with
\* none, issued CREATE_SESSION before its main request and got a session id;
\* neither has asked for another, and the device has handed out no other
Raced(t, u) ==
    /\ t # u
    /\ \A x \in {t, u} :
         /\ task[x].wants /\ task[x].sid0 = PyNone
         /\ Main(x) # <<>> /\ Len(Creates(x)) = 1
         /\ FirstMainAt(x) > 1
         /\ task[x].reqs[FirstMainAt(x) - 1].kind = "CREATE_SESSION"
         /\ Creates(x)[1].st \notin {<<>>, <<PyNone>>}
    /\ devSid = 2

\* C18: session creation is not mutually exclusive: when two concurrent
\* dispatches that want a session both test self.sid before either assigns it,
\* CREATE_SESSION is issued twice, each dispatch sends its request with the sid
\* it was given, and self.sid holds one of the two, the other being overwritten.
C18_SessionRace ==
    \A t, u \in Tasks :
        Raced(t, u) =>
            /\ Created(t) # Created(u)
            /\ \A x \in {t, u} :
                 /\ "sid" \in DOMAIN Main(x)[1].params
                 /\ Main(x)[1].params["sid"] = Created(x)
            /\ sid \in {Created(t), Created(u)}
            /\ \E x \in {t, u} : Main(x)[1].params["sid"] # sid

\* C18 witness: two concurrent dispatches have each created a session, and the
\* second assignment has replaced the sid the first request was sent with.
C18_Witness ==
    \E t, u \in Tasks :
        /\ Raced(t, u)
        /\ Created(t) = SidValue(1) /\ Created(u) = SidValue(2)
        /\ Main(t)[1].params["sid"] = SidValue(1)
        /\ sid = SidValue(2)

\* C19: close never opens a session: whatever answers its DELETE_SESSION
\* request, no CREATE_SESSION is issued during close; and close issues no
\* request when no sid is held.
C19_CloseOpensNoSession ==
    \A t \in Tasks :
        task[t].op = "close" =>
            /\ Creates(t) = <<>>
            /\ task[t].path[1] # "DELETE_SESSION" => task[t].reqs = <<>>

\* close issues no request when no sid is held, and no CREATE_SESSION when its
\* DELETE_SESSION request is answered with success or gets no answer
CloseWithoutRecovery ==
    \A t \in Tasks :
        task[t].op = "close" =>
            /\ ~FirstFailed(t) => Creates(t) = <<>>
            /\ task[t].path[1] # "DELETE_SESSION" => task[t].reqs = <<>>

\* The sid the first main request of the dispatch was sent with, None when it
\* carried none
SidSent(t) ==
    IF "sid" \in DOMAIN Main(t)[1].params THEN Main(t)[1].params["sid"] ELSE PyNone

\* The first main request was answered with a status that is not success and
\* the create_session that followed raised
RecoveryFailed(t) ==
    /\ CallDone(t) /\ FirstFailed(t)
    /\ Recovery(t) # <<>>
    /\ Recovery(t)[1].kind = "CREATE_SESSION" /\ Recovery(t)[1].st = <<>>

\* C20: when the first main request is answered with a status that is not
\* success and the CREATE_SESSION of the recovery fails, no second main request
\* is issued, call returns None, and self.sid and the endpoint are what they
\* were when the first request was sent.
C20_FailedRecovery ==
    \A t \in Tasks :
        RecoveryFailed(t) =>
            /\ Len(Main(t)) = 1 /\ Len(Recovery(t)) = 1
            /\ task[t].doc = PyNone
            /\ sid = SidSent(t)
            /\ task[t].sid0 # PyNone => sid = task[t].sid0
            /\ webfsapi = Endpoint
            /\ task[t].ep0 # PyNone => webfsapi = task[t].ep0

\* C20 witness: a dispatch that began with a sid held has returned None after a
\* recovery CREATE_SESSION that got no answer, and the sid is still held.
C20_Witness ==
    \E t \in Tasks :
        /\ RecoveryFailed(t) /\ task[t].exc \in NetErrors
        /\ task[t].sid0 = SidValue(1) /\ sid = SidValue(1)
        /\ task[t].doc = PyNone

====
